---- MODULE Spec2Model ----
(***************************************************************************)
(* convert_coco.py: conversion of captioned-image Parquet tables into      *)
(* WebDataset shards.  The model follows the script statement by           *)
(* statement: the __main__ block, the aggregation loop (pass 1), the       *)
(* writing loop (pass 2) and the image validator.                          *)
(*                                                                         *)
(* Strings are sequences of one-character strings, so that len() and       *)
(* os.path.splitext work on characters.                                    *)
(***************************************************************************)
EXTENDS Integers, Sequences, FiniteSets, TLC

\* ------------------------------------------------------------------ bounds
MaxFiles == 2
MaxRows == 3
MaxSamplesPerShard == 2

\* Python's None.
None == [none |-> TRUE]
\* An image whose format PIL leaves unset (img.format is falsy).
NoFormat == ""

\* ------------------------------------------------------------ input values
\* An image payload is described by what PIL finds in it: whether Image.open
\* identifies it, whether verify() passes, whether the pixel data loads (needed
\* by convert/save only), its format, colour mode and size.
Img(ident, intact, loadable, format, mode, size) ==
    [ident |-> ident, intact |-> intact, loadable |-> loadable,
     format |-> format, mode |-> mode, size |-> size]

PilFormats == {"JPEG", "PNG", "WEBP", "GIF", "BMP", NoFormat}
PilModes == {"RGB", "RGBA", "L", "P"}
ImageSizes == {<<1, 1>>, <<2, 1>>}

\* Every payload the validator is checked on.
AllPayloads ==
    {Img(i, v, l, f, m, s) : i \in BOOLEAN, v \in BOOLEAN, l \in BOOLEAN,
                             f \in PilFormats, m \in PilModes, s \in ImageSizes}

GoodJpeg == Img(TRUE, TRUE, TRUE, "JPEG", "RGB", <<1, 1>>)
NotAnImage == Img(FALSE, FALSE, FALSE, NoFormat, "RGB", <<1, 1>>)
CorruptPng == Img(TRUE, FALSE, FALSE, "PNG", "RGBA", <<2, 1>>)
TruncatedGrayJpeg == Img(TRUE, TRUE, FALSE, "JPEG", "L", <<2, 1>>)

\* The image column of a row: bytes, a dict with a 'bytes' key (whose value may
\* be None), or anything else.
RawBytes(b) == [shape |-> "bytes", bytes |-> b]
Envelope(b) == [shape |-> "dict", bytes |-> b]
OtherShape == [shape |-> "other", bytes |-> None]

Row(filename, caption, image) ==
    [filename |-> filename, caption |-> caption, image |-> image]

Filenames == {<<"a", ".", "j">>, <<"a", ".", "p">>, <<"b">>}
Captions == {<<>>, <<"a">>}
ImageFields == {RawBytes(GoodJpeg), RawBytes(NotAnImage), Envelope(CorruptPng),
                RawBytes(TruncatedGrayJpeg), Envelope(None), OtherShape}
\* Rows of the tables when the run is not traced.
TableRows == {Row(f, c, i) : f \in Filenames, c \in Captions, i \in ImageFields}

TracedCaptions == {<<"a">>, <<"b">>, <<"a", "b">>}
TracedImageFields == {RawBytes(GoodJpeg), Envelope(NotAnImage), Envelope(None),
                      OtherShape}
\* Rows of the tables when every row read is recorded in rows_read: every
\* caption and image field for one filename, and two rows of a second filename.
TracedRows ==
    {Row(<<"a", ".", "j">>, c, i) : c \in TracedCaptions, i \in TracedImageFields}
    \cup {Row(<<"b">>, c, RawBytes(GoodJpeg)) : c \in {<<"a">>, <<"a", "b">>}}

VARIABLES
    pc,                     \* position in the script
    parquet_files,          \* sorted(glob.glob(parquet_pattern))
    samples_per_shard,      \* args.samples_per_shard
    pf_idx,                 \* position of the pass-1 loop in parquet_files
    image_data,             \* the defaultdict, as its items in insertion order
    trace_rows,             \* whether rows_read records the rows
    rows_read,              \* the rows df.iterrows() has produced so far
    read_errors,            \* files whose "Error reading or processing" was printed
    no_files_error,         \* "Error: No Parquet files found" was printed
    output_dir_made,        \* os.makedirs(output_dir) has run
    sink,                   \* the ShardWriter
    tars,                   \* the shard files on disk: shard number -> samples
    entry_idx,              \* position of the pass-2 loop in image_data.items()
    validator_calls,        \* filenames passed to the validator, in order
    written,                \* samples passed to sink.write, in order
    total_images_processed,
    v_arg,                  \* argument of a validator call on its own
    v_result                \* and its result

vars == <<pc, parquet_files, samples_per_shard, pf_idx, image_data, trace_rows,
          rows_read, read_errors, no_files_error, output_dir_made, sink, tars,
          entry_idx, validator_calls, written, total_images_processed,
          v_arg, v_result>>

\* ------------------------------------------------------------- the validator
Lower(format) ==
    CASE format = "JPEG" -> "jpeg"
      [] format = "PNG" -> "png"
      [] format = "WEBP" -> "webp"
      [] format = "GIF" -> "gif"
      [] format = "BMP" -> "bmp"
      [] OTHER -> format

\* img.format.lower() if img.format else 'jpeg'
DetectedFormat(img) == IF img.format # NoFormat THEN Lower(img.format) ELSE "jpeg"

SupportedFormats == {"jpeg", "png", "webp"}

\* img_format after the fallback of lines 29-31.
ChosenFormat(img) ==
    IF DetectedFormat(img) \notin SupportedFormats THEN "jpeg"
    ELSE DetectedFormat(img)

\* img.convert('RGB') saved with format='JPEG'.
SaveAsRgbJpeg(img) == [img EXCEPT !.format = "JPEG", !.mode = "RGB"]

Rejected == [bytes |-> None, format |-> None, width |-> None, height |-> None]

\* NormalizedBytes with the disabled RGBA branch (lines 43-47) switched on.
NormalizedBytesFlattenRgba(img) ==
    IF ChosenFormat(img) = "jpeg" /\ img.mode # "RGB" THEN SaveAsRgbJpeg(img)
    ELSE IF ChosenFormat(img) = "png" /\ img.mode = "RGBA"
    THEN [img EXCEPT !.mode = "RGB"]
    ELSE img

\* Lines 33-50: validated_bytes.
NormalizedBytes(img) ==
    IF ChosenFormat(img) = "jpeg" /\ img.mode # "RGB" THEN SaveAsRgbJpeg(img)
    ELSE IF ChosenFormat(img) = "png" /\ img.mode = "RGBA" THEN img
    ELSE img

\* The validator without the img.verify() of line 22.
ValidateWithoutVerify(img_bytes) ==
    IF img_bytes = None \/ ~img_bytes.ident THEN Rejected
    ELSE IF ChosenFormat(img_bytes) = "jpeg" /\ img_bytes.mode # "RGB"
            /\ ~img_bytes.loadable THEN Rejected
    ELSE [bytes |-> NormalizedBytes(img_bytes),
          format |-> ChosenFormat(img_bytes),
          width |-> img_bytes.size[1], height |-> img_bytes.size[2]]

\* Lines 20-58.  Image.open of empty or unrecognised bytes raises
\* UnidentifiedImageError; verify() raises on a corrupt file; convert and save
\* load the pixel data and raise when it cannot be loaded.
get_image_bytes_validate_and_dims(img_bytes) ==
    IF img_bytes = None \/ ~img_bytes.ident THEN Rejected   \* UnidentifiedImageError
    ELSE IF ~img_bytes.intact THEN Rejected                 \* verify() raises
    ELSE IF ChosenFormat(img_bytes) = "jpeg" /\ img_bytes.mode # "RGB"
            /\ ~img_bytes.loadable THEN Rejected            \* convert/save raises
    ELSE [bytes |-> NormalizedBytes(img_bytes),
          format |-> ChosenFormat(img_bytes),
          width |-> img_bytes.size[1], height |-> img_bytes.size[2]]

\* ------------------------------------------------------------------- pass 1
\* Position of a filename among the keys of the mapping, 0 when absent.
RECURSIVE KeyIndex(_, _, _)
KeyIndex(data, filename, i) ==
    IF i > Len(data) THEN 0
    ELSE IF data[i].filename = filename THEN i
    ELSE KeyIndex(data, filename, i + 1)

HasKey(data, filename) == KeyIndex(data, filename, 1) # 0

\* image_data[filename] of a defaultdict: a missing key is inserted with the
\* default entry.
Touch(data, filename) ==
    IF HasKey(data, filename) THEN data
    ELSE Append(data, [filename |-> filename, prompt_text |-> <<>>,
                       image_bytes |-> None])

\* StoreRow with >= for > at line 114: the last of several longest captions wins.
StoreRowLastWins(data, filename, caption, image_bytes) ==
    LET d == Touch(data, filename)
        k == KeyIndex(d, filename, 1)
    IN  IF d[k].image_bytes = None
        THEN [d EXCEPT ![k].image_bytes = image_bytes, ![k].prompt_text = caption]
        ELSE IF Len(caption) >= Len(d[k].prompt_text)
        THEN [d EXCEPT ![k].prompt_text = caption]
        ELSE d

\* StoreRow storing the image of the row that brings a longer caption.
StoreRowOverwritesBytes(data, filename, caption, image_bytes) ==
    LET d == Touch(data, filename)
        k == KeyIndex(d, filename, 1)
    IN  IF d[k].image_bytes = None
        THEN [d EXCEPT ![k].image_bytes = image_bytes, ![k].prompt_text = caption]
        ELSE IF Len(caption) > Len(d[k].prompt_text)
        THEN [d EXCEPT ![k].image_bytes = image_bytes, ![k].prompt_text = caption]
        ELSE d

\* Lines 110-115.
StoreRow(data, filename, caption, image_bytes) ==
    LET d == Touch(data, filename)
        k == KeyIndex(d, filename, 1)
    IN  IF d[k].image_bytes = None
        THEN [d EXCEPT ![k].image_bytes = image_bytes, ![k].prompt_text = caption]
        ELSE IF Len(caption) > Len(d[k].prompt_text)
        THEN [d EXCEPT ![k].prompt_text = caption]
        ELSE d

\* Lines 101-108: whether the image field yields image_bytes.
ImageFieldAccepted(image_field) == image_field.shape \in {"dict", "bytes"}

\* AggregateRow without the shape test of lines 102-108.
AggregateRowAnyShape(data, row) ==
    StoreRow(data, row.filename, row.caption, row.image.bytes)

\* The body of the row loop, lines 97-115.
AggregateRow(data, row) ==
    IF ImageFieldAccepted(row.image)
    THEN StoreRow(data, row.filename, row.caption, row.image.bytes)
    ELSE data

\* ------------------------------------------------------------------- pass 2
RECURSIVE LastIndexOf(_, _, _)
\* str.rfind, 1-based, 0 when absent.
LastIndexOf(s, ch, i) ==
    IF i = 0 THEN 0
    ELSE IF s[i] = ch THEN i
    ELSE LastIndexOf(s, ch, i - 1)

\* os.path.splitext: the extension starts at the last dot of the last path
\* component, leading dots of that component not counted.
splitext(p) ==
    LET sepIndex == LastIndexOf(p, "/", Len(p))
        dotIndex == LastIndexOf(p, ".", Len(p))
    IN  IF dotIndex > sepIndex
           /\ \E i \in (sepIndex + 1)..(dotIndex - 1) : p[i] # "."
        THEN <<SubSeq(p, 1, dotIndex - 1), SubSeq(p, dotIndex, Len(p))>>
        ELSE <<p, <<>>>>

\* Lines 137-146.
Sample(base_filename, prompt_text, validated) ==
    [key |-> splitext(base_filename)[1],
     ext |-> validated.format,
     data |-> validated.bytes,
     json |-> [prompt |-> prompt_text, width |-> validated.width,
               height |-> validated.height]]

\* ---------------------------------------------------------- the shard writer
DigitChars == <<"0", "1", "2", "3", "4", "5", "6", "7", "8", "9">>

RECURSIVE ZeroPadded(_, _)
\* "%0<width>d" % n
ZeroPadded(n, width) ==
    IF width = 0 THEN <<>>
    ELSE Append(ZeroPadded(n \div 10, width - 1), DigitChars[(n % 10) + 1])

ShardDigits == 6
\* shard_pattern % shard, without the directory and the prefix.
ShardName(shard) == ZeroPadded(shard, ShardDigits)

NoSink == [open |-> FALSE, maxcount |-> 0, shard |-> 0, count |-> 0]

\* ShardWriter.next_stream: open the next numbered file.
NextStream(w) ==
    [sink |-> [w.sink EXCEPT !.shard = @ + 1, !.count = 0],
     tars |-> [n \in DOMAIN w.tars \cup {ShardName(w.sink.shard)} |->
                  IF n = ShardName(w.sink.shard) THEN <<>> ELSE w.tars[n]]]

\* wds.ShardWriter(pattern, maxcount): the constructor opens shard 0.
ShardWriter(maxcount, files) ==
    NextStream([sink |-> [open |-> TRUE, maxcount |-> maxcount, shard |-> 0,
                          count |-> 0],
                tars |-> files])

\* ShardWriter.write: start a new shard when the current one is full.  (The
\* library also starts one when the shard exceeds maxsize bytes; line 76 leaves
\* that at its default and sizes in bytes are not modelled.)
SinkWrite(w, sample) ==
    LET s == IF w.sink.count >= w.sink.maxcount THEN NextStream(w) ELSE w
        current == ShardName(s.sink.shard - 1)
    IN  [sink |-> [s.sink EXCEPT !.count = @ + 1],
         tars |-> [s.tars EXCEPT ![current] = Append(@, sample)]]

\* OpenSink leaving maxcount at the writer's default.
OpenSinkDefaultMaxcount(n) == ShardWriter(100000, <<>>)

\* Line 76: the writer is given samples_per_shard as its maxcount.
OpenSink(n) == ShardWriter(n, <<>>)

\* ------------------------------------------------------------------ actions
\* Line 162.
DefaultSamplesPerShard == 10000

FileLists == {[i \in 1..n |-> i] : n \in 0..MaxFiles}

InitCommon ==
    /\ pc = "main"
    /\ parquet_files \in FileLists
    /\ pf_idx = 1
    /\ image_data = <<>>
    /\ rows_read = <<>>
    /\ read_errors = {}
    /\ no_files_error = FALSE
    /\ output_dir_made = FALSE
    /\ sink = NoSink
    /\ tars = <<>>
    /\ entry_idx = 1
    /\ validator_calls = <<>>
    /\ written = <<>>
    /\ total_images_processed = 0
    /\ v_arg = None
    /\ v_result = None

Init ==
    /\ InitCommon
    /\ samples_per_shard \in 1..MaxSamplesPerShard
    /\ trace_rows = FALSE

InitTraced ==
    /\ InitCommon
    /\ samples_per_shard = DefaultSamplesPerShard
    /\ trace_rows = TRUE

\* Main without the test of line 169.
MainWithoutCheck ==
    /\ pc = "main"
    /\ output_dir_made' = TRUE
    /\ sink' = OpenSink(samples_per_shard).sink
    /\ tars' = OpenSink(samples_per_shard).tars
    /\ pc' = "pass1"
    /\ UNCHANGED <<no_files_error, parquet_files, samples_per_shard, pf_idx,
                   image_data, trace_rows, rows_read, read_errors, entry_idx,
                   validator_calls, written, total_images_processed,
                   v_arg, v_result>>

\* Lines 169-176 and 72-78.
Main ==
    /\ pc = "main"
    /\ IF parquet_files = <<>>
       THEN /\ no_files_error' = TRUE
            /\ pc' = "done"
            /\ UNCHANGED <<output_dir_made, sink, tars>>
       ELSE /\ output_dir_made' = TRUE
            /\ sink' = OpenSink(samples_per_shard).sink
            /\ tars' = OpenSink(samples_per_shard).tars
            /\ pc' = "pass1"
            /\ UNCHANGED no_files_error
    /\ UNCHANGED <<parquet_files, samples_per_shard, pf_idx, image_data,
                   trace_rows, rows_read, read_errors, entry_idx,
                   validator_calls, written, total_images_processed,
                   v_arg, v_result>>

\* Lines 86-89: the table of the next file is read.
ReadTable ==
    /\ pc = "pass1"
    /\ pf_idx <= Len(parquet_files)
    /\ pc' = "rows"
    /\ UNCHANGED <<parquet_files, samples_per_shard, pf_idx, image_data,
                   trace_rows, rows_read, read_errors, no_files_error,
                   output_dir_made, sink, tars, entry_idx, validator_calls,
                   written, total_images_processed, v_arg, v_result>>

\* Lines 88-89 raise; lines 117-119.
ReadTableFails ==
    /\ pc = "pass1"
    /\ pf_idx <= Len(parquet_files)
    /\ read_errors' = read_errors \cup {parquet_files[pf_idx]}
    /\ pf_idx' = pf_idx + 1
    /\ UNCHANGED <<pc, parquet_files, samples_per_shard, image_data,
                   trace_rows, rows_read, no_files_error,
                   output_dir_made, sink, tars, entry_idx, validator_calls,
                   written, total_images_processed, v_arg, v_result>>

RowSource == IF trace_rows THEN TracedRows ELSE TableRows

\* Lines 96-115: one row of the current table.  filename and caption are
\* strings, as the schema of the tables has them; the image column has any of
\* the shapes lines 102-108 tell apart.  A traced run reads at most MaxRows rows.
NextRow ==
    /\ pc = "rows"
    /\ trace_rows => Len(rows_read) < MaxRows
    /\ \E row \in RowSource :
          /\ image_data' = AggregateRow(image_data, row)
          /\ rows_read' = IF trace_rows THEN Append(rows_read, row)
                          ELSE rows_read
    /\ UNCHANGED <<pc, parquet_files, samples_per_shard, pf_idx,
                   trace_rows, read_errors, no_files_error,
                   output_dir_made, sink, tars, entry_idx, validator_calls,
                   written, total_images_processed, v_arg, v_result>>

\* Line 96: the rows of the table are exhausted.
EndOfTable ==
    /\ pc = "rows"
    /\ pc' = "pass1"
    /\ pf_idx' = pf_idx + 1
    /\ UNCHANGED <<parquet_files, samples_per_shard, image_data,
                   trace_rows, rows_read, read_errors, no_files_error,
                   output_dir_made, sink, tars, entry_idx, validator_calls,
                   written, total_images_processed, v_arg, v_result>>

\* Line 121: the file loop is over.
StartWriting ==
    /\ pc = "pass1"
    /\ pf_idx > Len(parquet_files)
    /\ pc' = "pass2"
    /\ entry_idx' = 1
    /\ UNCHANGED <<parquet_files, samples_per_shard, pf_idx, image_data,
                   trace_rows, rows_read, read_errors, no_files_error,
                   output_dir_made, sink, tars, validator_calls,
                   written, total_images_processed, v_arg, v_result>>

\* Line 126 without the test of the prompt.
MissingBytesOnly(data) == data.image_bytes = None

\* Line 126.
MissingBytesOrPrompt(data) == data.image_bytes = None \/ data.prompt_text = <<>>

\* Lines 122-150: one entry of image_data.items().
WriteEntry ==
    /\ pc = "pass2"
    /\ entry_idx <= Len(image_data)
    /\ entry_idx' = entry_idx + 1
    /\ LET data == image_data[entry_idx]
           validated == get_image_bytes_validate_and_dims(data.image_bytes)
           w == SinkWrite([sink |-> sink, tars |-> tars],
                          Sample(data.filename, data.prompt_text, validated))
       IN  IF MissingBytesOrPrompt(data)
           THEN UNCHANGED <<validator_calls, sink, tars, written,
                            total_images_processed>>
           ELSE /\ validator_calls' = Append(validator_calls, data.filename)
                /\ IF validated.bytes = None
                   THEN UNCHANGED <<sink, tars, written, total_images_processed>>
                   ELSE /\ sink' = w.sink
                        /\ tars' = w.tars
                        /\ written' = Append(written,
                               Sample(data.filename, data.prompt_text, validated))
                        /\ total_images_processed' = total_images_processed + 1
    /\ UNCHANGED <<pc, parquet_files, samples_per_shard, pf_idx, image_data,
                   trace_rows, rows_read, read_errors, no_files_error,
                   output_dir_made, v_arg, v_result>>

\* Line 76, leaving the with block: the writer is closed.
CloseSink ==
    /\ pc = "pass2"
    /\ entry_idx > Len(image_data)
    /\ sink' = [sink EXCEPT !.open = FALSE]
    /\ pc' = "done"
    /\ UNCHANGED <<parquet_files, samples_per_shard, pf_idx, image_data,
                   trace_rows, rows_read, read_errors, no_files_error,
                   output_dir_made, tars, entry_idx, validator_calls,
                   written, total_images_processed, v_arg, v_result>>

Next ==
    \/ Main
    \/ ReadTable
    \/ ReadTableFails
    \/ NextRow
    \/ EndOfTable
    \/ StartWriting
    \/ WriteEntry
    \/ CloseSink

Spec == Init /\ [][Next]_vars

SpecTraced == InitTraced /\ [][Next]_vars

\* --------------------------------------------- the validator on its own
InitValidator ==
    /\ pc = "validate"
    /\ v_arg \in AllPayloads
    /\ v_result = None
    /\ parquet_files = <<>>
    /\ samples_per_shard = DefaultSamplesPerShard
    /\ pf_idx = 1
    /\ image_data = <<>>
    /\ trace_rows = FALSE
    /\ rows_read = <<>>
    /\ read_errors = {}
    /\ no_files_error = FALSE
    /\ output_dir_made = FALSE
    /\ sink = NoSink
    /\ tars = <<>>
    /\ entry_idx = 1
    /\ validator_calls = <<>>
    /\ written = <<>>
    /\ total_images_processed = 0

\* Lines 13-58: one call of the validator.
Validate ==
    /\ pc = "validate"
    /\ v_result' = get_image_bytes_validate_and_dims(v_arg)
    /\ pc' = "validated"
    /\ UNCHANGED <<parquet_files, samples_per_shard, pf_idx, image_data,
                   trace_rows, rows_read, read_errors, no_files_error,
                   output_dir_made, sink, tars, entry_idx, validator_calls,
                   written, total_images_processed, v_arg>>

NextValidator == Validate

SpecValidator == InitValidator /\ [][NextValidator]_vars

\* =================================================================== claims
Aggregated == pc \in {"pass2", "done"}

\* The first of the longest captions of a non-empty sequence.
FirstLongest(captions) ==
    captions[CHOOSE i \in 1..Len(captions) :
                /\ \A j \in 1..Len(captions) : Len(captions[j]) <= Len(captions[i])
                /\ \A j \in 1..(i - 1) : Len(captions[j]) < Len(captions[i])]

CaptionsOf(rows) == [i \in 1..Len(rows) |-> rows[i].caption]

\* The rows read that carry the filename.
RowsCarrying(filename) ==
    SelectSeq(rows_read, LAMBDA r : r.filename = filename)

\* Those of them whose image field is bytes or a dict with a 'bytes' key.
RowsWithImageField(filename) ==
    SelectSeq(rows_read,
              LAMBDA r : r.filename = filename /\ r.image.shape \in {"bytes", "dict"})

\* Those of them from the first one whose payload is not None.
RowsFromFirstPayload(filename) ==
    LET rows == RowsWithImageField(filename)
        withPayload == {i \in 1..Len(rows) : rows[i].image.bytes # None}
    IN  IF withPayload = {} THEN <<>>
        ELSE SubSeq(rows, CHOOSE i \in withPayload : \A j \in withPayload : i <= j,
                    Len(rows))

BytesOf(data, filename) ==
    IF \E i \in 1..Len(data) : data[i].filename = filename
    THEN data[CHOOSE i \in 1..Len(data) : data[i].filename = filename].image_bytes
    ELSE None

AllFilenames == Filenames \cup {r.filename : r \in TracedRows}

C10_FailedFilesAndBadRowsSkipped ==
    [][/\ read_errors' # read_errors
           => /\ image_data' = image_data
              /\ rows_read' = rows_read
              /\ read_errors' = read_errors \cup {parquet_files[pf_idx]}
              /\ pf_idx' = pf_idx + 1
              /\ pc' = "pass1"
       /\ (rows_read' # rows_read
           /\ rows_read'[Len(rows_read')].image.shape \notin {"bytes", "dict"})
           => /\ image_data' = image_data
              /\ pf_idx' = pf_idx
              /\ pc' = "rows"
       /\ (pc = "pass1" /\ pc' = "pass2")
           => pf_idx = Len(parquet_files) + 1]_vars

\* The first file failed, and in a later file a row of another shape was
\* followed by a row that was aggregated.
C10_Witness ==
    /\ 1 \in read_errors
    /\ pf_idx > 1
    /\ Len(rows_read) >= 2
    /\ rows_read[1].image.shape = "other"
    /\ rows_read[2].image.shape = "bytes"
    /\ Len(image_data) = 1
    /\ image_data[1].filename = rows_read[2].filename

RECURSIVE Concat(_, _)
\* The samples of shards 0..n-1, in order.
Concat(files, n) ==
    IF n = 0 THEN <<>>
    ELSE Concat(files, n - 1) \o files[ZeroPadded(n - 1, 6)]

\* C2: the shards are numbered from 0 without gaps, none holds more than
\* samples_per_shard samples, all but the last hold exactly that many, and the
\* shards read in order are the samples written, in arrival order.
C2_ShardsFilledInOrder ==
    sink # NoSink =>
        /\ sink.shard >= 1
        /\ DOMAIN tars = {ZeroPadded(k, 6) : k \in 0..(sink.shard - 1)}
        /\ <<"0", "0", "0", "0", "0", "0">> \in DOMAIN tars
        /\ \A k \in 0..(sink.shard - 1) :
              Len(tars[ZeroPadded(k, 6)]) <= samples_per_shard
        /\ \A k \in 0..(sink.shard - 2) :
              Len(tars[ZeroPadded(k, 6)]) = samples_per_shard
        /\ Concat(tars, sink.shard) = written
        /\ Len(written) > 0 =>
              (sink.shard - 1) * samples_per_shard < Len(written)

\* Three samples in shards of two: 000000 holds two, 000001 holds one.
C2_Witness ==
    /\ pc = "done"
    /\ samples_per_shard = 2
    /\ Len(written) = 3
    /\ DOMAIN tars = {<<"0", "0", "0", "0", "0", "0">>,
                      <<"0", "0", "0", "0", "0", "1">>}
    /\ Len(tars[<<"0", "0", "0", "0", "0", "1">>]) = 1

\* C3: no two samples written in one run carry the same __key__.
C3_KeysUnique ==
    \A i, j \in 1..Len(written) : i # j => written[i].key # written[j].key

Accepts(image_bytes) ==
    get_image_bytes_validate_and_dims(image_bytes).bytes # None

EntrySample(data) ==
    Sample(data.filename, data.prompt_text,
           get_image_bytes_validate_and_dims(data.image_bytes))

FilenamesOf(entries) == [i \in 1..Len(entries) |-> entries[i].filename]
SamplesOf(entries) == [i \in 1..Len(entries) |-> EntrySample(entries[i])]

\* C4 as stated: every entry is passed to the validator, and the entries the
\* validator accepts are the samples written, each once.
C4_EveryEntryValidated ==
    pc = "done" =>
        /\ validator_calls = FilenamesOf(image_data)
        /\ written = SamplesOf(SelectSeq(image_data,
                         LAMBDA e : Accepts(e.image_bytes)))

\* C4 amended: every entry that holds image bytes and a non-empty prompt is
\* passed to the validator, and those of them the validator accepts are the
\* samples written, each once, in the order of the mapping; an entry is dropped
\* when its image bytes are missing, its prompt is empty or the validator
\* rejects its bytes.
C4_CompleteEntriesValidated ==
    pc = "done" =>
        /\ validator_calls =
               FilenamesOf(SelectSeq(image_data,
                   LAMBDA e : e.image_bytes # None /\ e.prompt_text # <<>>))
        /\ written =
               SamplesOf(SelectSeq(image_data,
                   LAMBDA e : /\ e.image_bytes # None
                              /\ e.prompt_text # <<>>
                              /\ Accepts(e.image_bytes)))
        /\ total_images_processed = Len(written)

\* One entry was written, one was rejected by the validator and one with a
\* valid image was dropped for its empty prompt.
C4_Witness ==
    /\ pc = "done"
    /\ Len(written) = 1
    /\ Len(validator_calls) = 2
    /\ \E i \in 1..Len(image_data) :
          /\ image_data[i].prompt_text = <<>>
          /\ image_data[i].image_bytes = GoodJpeg

\* A payload that PIL does not identify, that fails verify(), or whose pixel
\* data cannot be loaded for the conversion of a grayscale JPEG.
FailsDecoding(b) ==
    /\ b # None
    /\ \/ ~b.ident
       \/ ~b.intact
       \/ (b.format = "JPEG" /\ b.mode = "L" /\ ~b.loadable)

\* C5: for an entry whose payload fails decoding the validator returns the
\* rejection value, nothing is written, total_images_processed stays and pass 2
\* goes on with the next entry.
C5_RejectedEntryNotWritten ==
    [][(/\ pc = "pass2"
        /\ entry_idx <= Len(image_data)
        /\ FailsDecoding(image_data[entry_idx].image_bytes))
       => /\ get_image_bytes_validate_and_dims(
                 image_data[entry_idx].image_bytes).bytes = None
          /\ get_image_bytes_validate_and_dims(
                 image_data[entry_idx].image_bytes) = Rejected
          /\ written' = written
          /\ tars' = tars
          /\ sink' = sink
          /\ total_images_processed' = total_images_processed
          /\ entry_idx' = entry_idx + 1
          /\ pc' = "pass2"]_vars

\* An entry with a prompt and a corrupt image has been passed over, nothing was
\* written for it, and the next entry is up.
C5_Witness ==
    /\ pc = "pass2"
    /\ entry_idx = 2
    /\ Len(image_data) >= 2
    /\ image_data[1].image_bytes = CorruptPng
    /\ image_data[1].prompt_text # <<>>
    /\ validator_calls = <<image_data[1].filename>>
    /\ written = <<>>
    /\ total_images_processed = 0

\* C7: with no matching file the script prints the error and writes nothing:
\* no output directory, no shard writer, no shard file.
C7_NoFilesNoWrites ==
    parquet_files = <<>> =>
        /\ pc \in {"main", "done"}
        /\ pc = "done" => no_files_error
        /\ ~output_dir_made
        /\ sink = NoSink
        /\ tars = <<>>
        /\ written = <<>>

C7_Witness ==
    /\ parquet_files = <<>>
    /\ pc = "done"
    /\ no_files_error

\* An image that opens, verifies and loads.
Decodable(b) == b.ident /\ b.intact /\ b.loadable

\* C8: a decodable image whose format is not jpeg, png or webp is returned as
\* format jpeg with re-encoded RGB JPEG bytes, not the original payload.
C8_UnsupportedFormatReencoded ==
    (pc = "validated" /\ Decodable(v_arg) /\ v_arg.format \in {"GIF", "BMP"}) =>
        /\ v_result.format = "jpeg"
        /\ v_result.bytes = [v_arg EXCEPT !.format = "JPEG", !.mode = "RGB"]
        /\ v_result.bytes # v_arg

\* The format the claim calls chosen.
ClaimedFormat(b) ==
    CASE b.format = "PNG" -> "png"
      [] b.format = "WEBP" -> "webp"
      [] OTHER -> "jpeg"

====
